---- MODULE Spec2Model ----
(***************************************************************************)
(* Model of the analysis aggregation and result persistence pipeline:      *)
(*   - result_saver   (prepare_dynamodb_item, convert_floats_to_decimal,   *)
(*                     save_to_results_table, log_workflow_execution,      *)
(*                     calculate_statistics, lambda_handler)               *)
(*   - result_viewer  (get_result_by_id, get_all_results)                  *)
(*   - rekognition_analyzer (the four probes, calculate_overall_confidence,*)
(*                     generate_summary, lambda_handler)                   *)
(* Confidence values are whole percents; a value rounded to two decimals   *)
(* is held as an integer number of hundredths.                             *)
(***************************************************************************)
EXTENDS Integers, Sequences, FiniteSets, TLC

\* ---------------------------------------------------------------- bounds
MaxTime == 2
MaxRequests == 2
MaxLabelsLen == 2
MaxFacesLen == 2
MaxTextLen == 1
MaxModLen == 2
MaxCount == 2
MaxNest == 2

\* two concurrent invocations of result_saver, each serving one user's uploads
Writers == {"u1", "u2"}
ImageIds == {"img1", "img2"}

\* ------------------------------------------------------ program constants
TTL_DAYS == 30
SecondsPerDay == 86400
TextSignal == 80
UnsafeThreshold == 70

VARIABLES
    now,         \* wall clock in whole seconds (datetime.utcnow())
    store,       \* results table: set of items, primary key (image_id, processed_timestamp)
    wflog,       \* workflow-log table: set of log items
    pc,          \* result_saver invocation w: position in lambda_handler
    item,        \* result_saver invocation w: the item built by prepare_dynamodb_item
    putOutcome,  \* result_saver invocation w: what table.put_item did
    ret,         \* result_saver invocation w: the handler's return value
    reqNo,       \* result_saver invocation w: number of the current request
    viewerPc,    \* result_viewer: "idle" or "responded"
    viewerReq,   \* result_viewer: the image_id path parameter
    viewerQuery, \* result_viewer: "ok" when the store answered the query, "error" when it raised
    viewerResp,  \* result_viewer: the API response
    viewerCall,  \* result_viewer: the call made to the store ([op |-> "none"] when none was made)
    aPc,         \* rekognition_analyzer: position in lambda_handler
    aReq,        \* rekognition_analyzer: the handler's bucket and key (lines 25-26)
    svc,         \* rekognition_analyzer: what the vision service answered to each probe
    results,     \* rekognition_analyzer: the results dict
    statItem,    \* calculate_statistics: the item it is given
    stats,       \* calculate_statistics: the statistics returned (EmptyMap before the call)
    encEvent,    \* prepare_dynamodb_item: the event it is given
    encItem,     \* prepare_dynamodb_item: the item built (NoItem before the call)
    encPut       \* what the store's put_item did with the built item

saverVars == <<pc, item, putOutcome, ret, reqNo>>
viewerVars == <<viewerPc, viewerReq, viewerQuery, viewerResp, viewerCall>>
analyzerVars == <<aPc, aReq, svc, results>>
fnVars == <<statItem, stats, encEvent, encItem, encPut>>
vars == <<now, store, wflog, saverVars, viewerVars, analyzerVars, fnVars>>

\* ------------------------------------------------------------- helpers
EmptyMap == [k \in {} |-> 0]

Get(m, k, default) == IF k \in DOMAIN m THEN m[k] ELSE default

Max(S) == CHOOSE x \in S : \A y \in S : y <= x

RECURSIVE SumOver(_, _)
SumOver(f, S) ==
    IF S = {} THEN 0
    ELSE LET x == CHOOSE y \in S : TRUE IN f[x] + SumOver(f, S \ {x})

RECURSIVE SumSeq(_)
SumSeq(s) == IF s = <<>> THEN 0 ELSE Head(s) + SumSeq(Tail(s))

SeqsUpTo(S, n) == UNION {[1..k -> S] : k \in 0..n}

\* =========================================================== result_saver
NoItem == EmptyMap

\* a label name is the sequence of its characters
Str_none == <<"n", "o", "n", "e">>
Str_Cat == <<"C", "a", "t">>
Str_Food == <<"F", "o", "o", "d">>
Str_Seafood == <<"S", "e", "a", "f", "o", "o", "d">>
Str_Nature == <<"N", "a", "t", "u", "r", "e">>
Str_Landscape == <<"L", "a", "n", "d", "s", "c", "a", "p", "e">>
Str_landscape == <<"l", "a", "n", "d", "s", "c", "a", "p", "e">>
Str_nature == <<"n", "a", "t", "u", "r", "e">>
Str_food == <<"f", "o", "o", "d">>

\* a value of an event or item attribute, with its Python type: a float or
\* a Decimal is held in hundredths, an int as itself, a str as the sequence
\* of its characters, a list as a sequence, a dict as a function of its keys
FloatV(x) == [type |-> "float", v |-> x]
IntV(x) == [type |-> "int", v |-> x]
StrV(x) == [type |-> "str", v |-> x]
BoolV(x) == [type |-> "bool", v |-> x]
DecimalV(x) == [type |-> "Decimal", v |-> x]
ListV(s) == [type |-> "list", v |-> s]
DictV(m) == [type |-> "dict", v |-> m]

\* Decimal(str(x)) of a float or an int: the decimal number that str() prints
DecimalOfStr(x) == IF x.type = "int" THEN DecimalV(100 * x.v) ELSE DecimalV(x.v)

\* d.get(k, default) of a dict value
GetV(d, k, default) == IF k \in DOMAIN d.v THEN d.v[k] ELSE default

RECURSIVE convert_floats_to_decimal(_)
convert_floats_to_decimal(obj) ==
    IF obj.type = "float" THEN DecimalOfStr(obj)
    ELSE IF obj.type = "dict"
    THEN DictV([k \in DOMAIN obj.v |-> convert_floats_to_decimal(obj.v[k])])
    ELSE IF obj.type = "list"
    THEN ListV([i \in DOMAIN obj.v |-> convert_floats_to_decimal(obj.v[i])])
    ELSE obj

\* the value is or holds a float
RECURSIVE HasFloat(_)
HasFloat(obj) ==
    \/ obj.type = "float"
    \/ /\ obj.type \in {"dict", "list"}
       /\ \E k \in DOMAIN obj.v : HasFloat(obj.v[k])

\* prepare_dynamodb_item: timestamp = int(now.timestamp()),
\* expiration = now + TTL_DAYS days
\* variant: the expiry adds TTL_DAYS without converting the days to seconds
prepare_dynamodb_item_ttlNotInSeconds(event, clock) ==
    LET analysis == Get(event, "analysis", DictV(EmptyMap)) IN
    [image_id            |-> event.image_id,
     processed_timestamp |-> clock,
     size                |-> Get(event, "size", IntV(0)),
     user_id             |-> event.user_id,
     analysis            |-> convert_floats_to_decimal(analysis),
     confidence          |-> DecimalOfStr(GetV(analysis, "confidence", IntV(0))),
     has_faces           |-> GetV(GetV(analysis, "faces", DictV(EmptyMap)),
                                  "has_faces", BoolV(FALSE)).v,
     has_text            |-> GetV(GetV(analysis, "text", DictV(EmptyMap)),
                                  "has_text", BoolV(FALSE)).v,
     is_safe             |-> GetV(GetV(analysis, "moderation", DictV(EmptyMap)),
                                  "is_safe", BoolV(TRUE)).v,
     labels_count        |-> GetV(GetV(analysis, "labels", DictV(EmptyMap)),
                                  "count", IntV(0)).v,
     faces_count         |-> GetV(GetV(analysis, "faces", DictV(EmptyMap)),
                                  "count", IntV(0)).v,
     text_count          |-> GetV(GetV(analysis, "text", DictV(EmptyMap)),
                                  "count", IntV(0)).v,
     top_label           |-> GetV(GetV(GetV(analysis, "labels", DictV(EmptyMap)),
                                       "top_label", DictV(EmptyMap)),
                                  "name", StrV(Str_none)).v,
     warning             |-> Get(event, "warning", DictV(EmptyMap)),
     expiration_time     |-> clock + TTL_DAYS]

prepare_dynamodb_item(event, clock) ==
    LET analysis == Get(event, "analysis", DictV(EmptyMap)) IN
    [image_id            |-> event.image_id,
     processed_timestamp |-> clock,
     size                |-> Get(event, "size", IntV(0)),
     user_id             |-> event.user_id,
     analysis            |-> convert_floats_to_decimal(analysis),
     confidence          |-> DecimalOfStr(GetV(analysis, "confidence", IntV(0))),
     has_faces           |-> GetV(GetV(analysis, "faces", DictV(EmptyMap)),
                                  "has_faces", BoolV(FALSE)).v,
     has_text            |-> GetV(GetV(analysis, "text", DictV(EmptyMap)),
                                  "has_text", BoolV(FALSE)).v,
     is_safe             |-> GetV(GetV(analysis, "moderation", DictV(EmptyMap)),
                                  "is_safe", BoolV(TRUE)).v,
     labels_count        |-> GetV(GetV(analysis, "labels", DictV(EmptyMap)),
                                  "count", IntV(0)).v,
     faces_count         |-> GetV(GetV(analysis, "faces", DictV(EmptyMap)),
                                  "count", IntV(0)).v,
     text_count          |-> GetV(GetV(analysis, "text", DictV(EmptyMap)),
                                  "count", IntV(0)).v,
     top_label           |-> GetV(GetV(GetV(analysis, "labels", DictV(EmptyMap)),
                                       "top_label", DictV(EmptyMap)),
                                  "name", StrV(Str_none)).v,
     warning             |-> Get(event, "warning", DictV(EmptyMap)),
     expiration_time     |-> clock + TTL_DAYS * SecondsPerDay]

\* the attributes of an item that hold typed values
ValueAttributes == {"size", "analysis", "confidence", "warning"}

\* boto3's serializer rejects an item that holds a float ("Float types are
\* not supported. Use Decimal types instead.")
SerializerRejects(it) == \E a \in ValueAttributes : HasFloat(it[a])

\* the primary key of the results table: partition key image_id, sort key
\* processed_timestamp
PrimaryKey(it) == <<it.image_id, it.processed_timestamp>>

\* the stored item put_item's condition is evaluated against
Existing(tbl, it) == {r \in tbl : PrimaryKey(r) = PrimaryKey(it)}

\* 'attribute_not_exists(image_id) OR processed_timestamp < :new_timestamp'
ConditionExpression(existing, it) ==
    \A r \in existing : r.processed_timestamp < it.processed_timestamp

\* variant: a table keyed by image_id alone, the item replacing every record of the id
PutItem_hashOnly(tbl, it) ==
    {r \in tbl : r.image_id # it.image_id} \cup {it}

\* table.put_item: the item replaces the stored item with the same key
PutItem(tbl, it) == (tbl \ Existing(tbl, it)) \cup {it}

\* the records stored for one image id, and the current one's timestamp
RecordsOf(tbl, id) == {r \in tbl : r.image_id = id}
CurrentTs(tbl, id) ==
    IF RecordsOf(tbl, id) = {} THEN -1
    ELSE Max({r.processed_timestamp : r \in RecordsOf(tbl, id)})

\* the number of requests the invocations have taken so far
TotalRequests(n) == SumOver(n, Writers)

Tick ==
    /\ now < MaxTime
    /\ now' = now + 1
    /\ UNCHANGED <<store, wflog, saverVars, viewerVars, analyzerVars, fnVars>>

\* lambda_handler line 42: a new request arrives and its item is prepared
Prepare(w) ==
    /\ pc[w] \in {"idle", "done", "raised"}
    /\ TotalRequests(reqNo) < MaxRequests
    /\ \E id \in ImageIds :
         item' = [item EXCEPT ![w] =
                    prepare_dynamodb_item([image_id |-> id, user_id |-> w], now)]
    /\ pc' = [pc EXCEPT ![w] = "save"]
    /\ reqNo' = [reqNo EXCEPT ![w] = @ + 1]
    /\ putOutcome' = [putOutcome EXCEPT ![w] = "none"]
    /\ ret' = [ret EXCEPT ![w] = EmptyMap]
    /\ UNCHANGED <<now, store, wflog, viewerVars, analyzerVars, fnVars>>

\* the except clauses of save_to_results_table: ConditionalCheckFailedException
\* is logged and swallowed, every other exception is re-raised
\* variant: the conditional reject is raised like any other error
SaveRaises_rejectRaises(outcome) == outcome \in {"Error", "ConditionalCheckFailed"}

\* variant: every put_item exception is swallowed
SaveRaises_swallowAll(outcome) == FALSE

SaveRaises(outcome) == outcome = "Error"

\* what table.put_item does with the item: the store may be unavailable;
\* otherwise the condition is evaluated against the stored item with the same key
PutOutcome(tbl, it, available) ==
    IF ~available THEN "Error"
    ELSE IF ConditionExpression(Existing(tbl, it), it) THEN "Ok"
    ELSE "ConditionalCheckFailed"

\* save_to_results_table, and the handler's except/raise around it
SaveToResultsTable(w) ==
    /\ pc[w] = "save"
    /\ \E available \in BOOLEAN :
         LET outcome == PutOutcome(store, item[w], available) IN
         /\ putOutcome' = [putOutcome EXCEPT ![w] = outcome]
         /\ store' = IF outcome = "Ok" THEN PutItem(store, item[w]) ELSE store
         /\ pc' = [pc EXCEPT ![w] = IF SaveRaises(outcome) THEN "raised" ELSE "log"]
    /\ UNCHANGED <<now, wflog, item, ret, reqNo, viewerVars, analyzerVars, fnVars>>

\* the except clause of log_workflow_execution: every exception is swallowed
\* variant: a failed log write is raised to the handler
LogRaises_propagate(available) == ~available

LogRaises(available) == FALSE

\* the log item; its key is (execution_id, step_timestamp)
LogItem(w, n, it, clock) ==
    [execution_id |-> <<w, n>>, step_timestamp |-> clock,
     image_id |-> it.image_id, status |-> "SUCCESS"]

LogPut(tbl, li) ==
    {r \in tbl : <<r.execution_id, r.step_timestamp>> # <<li.execution_id, li.step_timestamp>>}
        \cup {li}

\* the handler's return value
SaverResponse(it) ==
    [status |-> "SUCCESS", image_id |-> it.image_id, saved_at |-> it.processed_timestamp]

\* log_workflow_execution, then calculate_statistics and the return
LogWorkflowExecution(w) ==
    /\ pc[w] = "log"
    /\ \E available \in BOOLEAN :
         /\ wflog' = IF available THEN LogPut(wflog, LogItem(w, reqNo[w], item[w], now))
                     ELSE wflog
         /\ IF LogRaises(available)
            THEN /\ pc' = [pc EXCEPT ![w] = "raised"]
                 /\ ret' = ret
            ELSE /\ pc' = [pc EXCEPT ![w] = "done"]
                 /\ ret' = [ret EXCEPT ![w] = SaverResponse(item[w])]
    /\ UNCHANGED <<now, store, item, putOutcome, reqNo, viewerVars, analyzerVars, fnVars>>

\* ------------------------------------------- the attributes of an event
\* the values nested up to depth d
RECURSIVE Values(_)
Values(d) ==
    IF d = 0 THEN {FloatV(905), IntV(2), StrV(Str_Cat), BoolV(TRUE)}
    ELSE Values(d - 1)
         \cup {ListV(<<x>>) : x \in Values(d - 1)}
         \cup {DictV([k \in {"detail"} |-> x]) : x \in Values(d - 1)}

AnalysisValues ==
    {DictV([confidence |-> c, details |-> x]) : c \in {FloatV(8083), IntV(0)},
                                              x \in Values(MaxNest)}
    \cup {DictV([details |-> x]) : x \in Values(MaxNest)}
WarningValues == {DictV([message |-> StrV(Str_none), detail |-> x]) :
                     x \in Values(MaxNest - 1)}
SizeValues == {IntV(102400), FloatV(102450)}

\* the events given to result_saver: size, analysis and warning are optional
EncEvents ==
    {[image_id |-> "img1", user_id |-> "u1"] @@ s @@ a @@ w :
        s \in {EmptyMap} \cup {[size |-> x] : x \in SizeValues},
        a \in {EmptyMap} \cup {[analysis |-> x] : x \in AnalysisValues},
        w \in {EmptyMap} \cup {[warning |-> x] : x \in WarningValues}}

\* lambda_handler line 42: item = prepare_dynamodb_item(event)
EncPrepare ==
    /\ encItem = NoItem
    /\ encItem' = prepare_dynamodb_item(encEvent, now)
    /\ UNCHANGED <<now, store, wflog, saverVars, viewerVars, analyzerVars,
                   statItem, stats, encEvent, encPut>>

\* lambda_handler line 45: save_to_results_table(item); the item is
\* serialized before the request is sent
EncPut ==
    /\ encItem # NoItem
    /\ encPut = "none"
    /\ IF SerializerRejects(encItem)
       THEN encPut' = "TypeError" /\ store' = store
       ELSE encPut' = "Ok" /\ store' = PutItem(store, encItem)
    /\ UNCHANGED <<now, wflog, saverVars, viewerVars, analyzerVars,
                   statItem, stats, encEvent, encItem>>

\* ------------------------------------------------- calculate_statistics
\* str.lower() on the letters that occur
Lower(s) ==
    LET lower == [C |-> "c", F |-> "f", S |-> "s", N |-> "n", L |-> "l"]
    IN [i \in DOMAIN s |-> IF s[i] \in DOMAIN lower THEN lower[s[i]] ELSE s[i]]

\* pat in s
Contains(s, pat) ==
    \E i \in 1..(Len(s) - Len(pat) + 1) : SubSeq(s, i, i + Len(pat) - 1) = pat

\* variant: the text test comes before the faces test
determine_content_type_textFirst(it) ==
    IF Get(it, "text_count", 0) > 0 THEN "DOCUMENT"
    ELSE IF Get(it, "faces_count", 0) > 0
    THEN IF it.faces_count = 1 THEN "PORTRAIT" ELSE "GROUP_PHOTO"
    ELSE IF Get(it, "labels_count", 0) > 0
    THEN LET top_label == Lower(Get(it, "top_label", <<>>))
         IN IF Contains(top_label, Str_landscape) \/ Contains(top_label, Str_nature)
            THEN "LANDSCAPE"
            ELSE IF Contains(top_label, Str_food) THEN "FOOD"
            ELSE "GENERAL"
    ELSE "UNKNOWN"

determine_content_type(it) ==
    IF Get(it, "faces_count", 0) > 0
    THEN IF it.faces_count = 1 THEN "PORTRAIT" ELSE "GROUP_PHOTO"
    ELSE IF Get(it, "text_count", 0) > 0 THEN "DOCUMENT"
    ELSE IF Get(it, "labels_count", 0) > 0
    THEN LET top_label == Lower(Get(it, "top_label", <<>>))
         IN IF Contains(top_label, Str_landscape) \/ Contains(top_label, Str_nature)
            THEN "LANDSCAPE"
            ELSE IF Contains(top_label, Str_food) THEN "FOOD"
            ELSE "GENERAL"
    ELSE "UNKNOWN"

\* float(item.get('confidence', 0)) >= 90: the item's confidence is a Decimal
calculate_statistics(it) ==
    [total_detections |-> Get(it, "labels_count", 0) + Get(it, "faces_count", 0)
                          + Get(it, "text_count", 0),
     confidence_level |-> IF Get(it, "confidence", DecimalV(0)).v >= 9000 THEN "HIGH"
                          ELSE IF Get(it, "confidence", DecimalV(0)).v >= 7000 THEN "MEDIUM"
                          ELSE "LOW",
     content_type |-> determine_content_type(it),
     processing_complete |-> TRUE]

\* the count and label attributes of the items that reach calculate_statistics
TopLabels == {Str_none, Str_Cat, Str_Food, Str_Seafood, Str_Nature, Str_Landscape}
StatItems ==
    [faces_count : 0..MaxCount, text_count : 0..MaxCount, labels_count : 0..MaxCount,
     top_label : TopLabels, confidence : {DecimalV(6999), DecimalV(9000)}]
NoStatItem == [faces_count |-> 0, text_count |-> 0, labels_count |-> 0,
               top_label |-> Str_none, confidence |-> DecimalV(6999)]

\* lambda_handler line 52: stats = calculate_statistics(item)
CalculateStatistics ==
    /\ stats = EmptyMap
    /\ stats' = calculate_statistics(statItem)
    /\ UNCHANGED <<now, store, wflog, saverVars, viewerVars, analyzerVars,
                   statItem, encEvent, encItem, encPut>>

\* ========================================================== result_viewer
Min(a, b) == IF a < b THEN a ELSE b

RECURSIVE SortByTimestamp(_, _)
SortByTimestamp(S, forward) ==
    IF S = {} THEN <<>>
    ELSE LET first == CHOOSE r \in S : \A q \in S :
                         IF forward THEN r.processed_timestamp <= q.processed_timestamp
                         ELSE r.processed_timestamp >= q.processed_timestamp
         IN <<first>> \o SortByTimestamp(S \ {first}, forward)

\* table.query(KeyConditionExpression='image_id = :iid', Limit, ScanIndexForward)
Query(tbl, id, limit, scanIndexForward) ==
    LET all == SortByTimestamp(RecordsOf(tbl, id), scanIndexForward)
    IN SubSeq(all, 1, Min(limit, Len(all)))

success_response(data) == [statusCode |-> 200, body |-> data]

error_response(status_code, message) ==
    [statusCode |-> status_code, body |-> [error |-> message, status_code |-> status_code]]

\* response.get('Items'): the values of a stored item as the table resource
\* returns them; every number, int or Decimal, comes back as a Decimal
RECURSIVE Deserialize(_)
Deserialize(obj) ==
    IF obj.type = "int" THEN DecimalV(100 * obj.v)
    ELSE IF obj.type = "dict"
    THEN DictV([k \in DOMAIN obj.v |-> Deserialize(obj.v[k])])
    ELSE IF obj.type = "list"
    THEN ListV([i \in DOMAIN obj.v |-> Deserialize(obj.v[i])])
    ELSE obj

RECURSIVE convert_decimals(_)
\* variant: only a Decimal that is not nested in a dict or a list is converted
convert_decimals_topOnly(obj) ==
    IF obj.type = "Decimal" THEN FloatV(obj.v) ELSE obj

convert_decimals(obj) ==
    IF obj.type = "Decimal" THEN FloatV(obj.v)
    ELSE IF obj.type = "dict"
    THEN DictV([k \in DOMAIN obj.v |-> convert_decimals(obj.v[k])])
    ELSE IF obj.type = "list"
    THEN ListV([i \in DOMAIN obj.v |-> convert_decimals(obj.v[i])])
    ELSE obj

\* the projection of the stored item that get_result_by_id returns
ResultBody(it) ==
    [image_id |-> it.image_id, processed_timestamp |-> it.processed_timestamp,
     user_id |-> it.user_id,
     size |-> Deserialize(Get(it, "size", IntV(0))),
     confidence |-> FloatV(Deserialize(Get(it, "confidence", IntV(0))).v),
     has_faces |-> Get(it, "has_faces", FALSE),
     has_text |-> Get(it, "has_text", FALSE),
     is_safe |-> Get(it, "is_safe", TRUE),
     analysis |-> convert_decimals(Deserialize(Get(it, "analysis", DictV(EmptyMap)))),
     warning |-> Deserialize(Get(it, "warning", DictV(EmptyMap)))]

\* variant: the query scans forward (oldest first)
get_result_by_id_oldestFirst(tbl, image_id, available) ==
    IF ~available THEN error_response(500, "store error")
    ELSE LET items == Query(tbl, image_id, 1, TRUE) IN
         IF items = <<>> THEN error_response(404, "not found")
         ELSE success_response(ResultBody(items[1]))

\* variant: an empty result is answered with 200
get_result_by_id_emptySuccess(tbl, image_id, available) ==
    IF ~available THEN error_response(500, "store error")
    ELSE LET items == Query(tbl, image_id, 1, FALSE) IN
         IF items = <<>> THEN success_response(EmptyMap)
         ELSE success_response(ResultBody(items[1]))

get_result_by_id(tbl, image_id, available) ==
    IF ~available THEN error_response(500, "store error")
    ELSE LET items == Query(tbl, image_id, 1, FALSE) IN
         IF items = <<>> THEN error_response(404, "not found")
         ELSE success_response(ResultBody(items[1]))

NoResponse == EmptyMap
NoCall == [op |-> "none"]

\* GET /results/{image_id}
GetResultById ==
    /\ viewerPc = "idle"
    /\ \E id \in ImageIds, available \in BOOLEAN :
         /\ viewerReq' = id
         /\ viewerQuery' = IF available THEN "ok" ELSE "error"
         /\ viewerResp' = get_result_by_id(store, id, available)
         /\ viewerCall' = [op |-> "query", image_id |-> id, Limit |-> 1,
                           ScanIndexForward |-> FALSE]
    /\ viewerPc' = "responded"
    /\ UNCHANGED <<now, store, wflog, saverVars, analyzerVars, fnVars>>

\* the response has been delivered; the next request may come
ViewerReturn ==
    /\ viewerPc = "responded"
    /\ viewerPc' = "idle"
    /\ viewerReq' = "none"
    /\ viewerQuery' = "none"
    /\ viewerResp' = NoResponse
    /\ viewerCall' = NoCall
    /\ UNCHANGED <<now, store, wflog, saverVars, analyzerVars, fnVars>>

\* ------------------------------------------------------ get_all_results
\* a page of a Query or Scan with Limit: the store stops once it has
\* processed Limit items and then returns LastEvaluatedKey, the key of the
\* last item processed; without it the end of the result set was reached
Page(all, limit) ==
    IF Len(all) >= limit
    THEN [Items |-> SubSeq(all, 1, limit), LastEvaluatedKey |-> PrimaryKey(all[limit])]
    ELSE [Items |-> all]

\* table.query(IndexName='UserIdIndex', KeyConditionExpression='user_id = :uid',
\* Limit, ScanIndexForward): the index is keyed by user_id and ordered by
\* processed_timestamp
QueryUserIdIndex(tbl, user_id, limit, scanIndexForward) ==
    Page(SortByTimestamp({r \in tbl : r.user_id = user_id}, scanIndexForward), limit)

RECURSIVE ConcatPartitions(_, _)
ConcatPartitions(tbl, order) ==
    IF order = <<>> THEN <<>>
    ELSE SortByTimestamp(RecordsOf(tbl, Head(order)), TRUE)
         \o ConcatPartitions(tbl, Tail(order))

\* table.scan(Limit): the partitions in the store's internal order, the items
\* of a partition by sort key
Scan(tbl, limit, order) == Page(ConcatPartitions(tbl, order), limit)

\* the orders in which the store may hold the partitions
PartitionOrders ==
    {o \in [1..Cardinality(ImageIds) -> ImageIds] : \A i, j \in DOMAIN o : i # j => o[i] # o[j]}

\* the entry of the results list built from a stored item
ListEntry(it) ==
    [image_id |-> it.image_id, processed_timestamp |-> it.processed_timestamp,
     user_id |-> it.user_id]

\* a query string value that int() accepts, and one it rejects
Numeral(n) == [numeric |-> TRUE, value |-> n]
NotNumeral == [numeric |-> FALSE]

DEFAULT_LIMIT == 20
MAX_LIMIT == 100

\* the limit after 'if limit > 100' and 'if limit < 1'
\* variant: no upper bound is applied
ClampLimit_noCap(n) == IF n < 1 THEN 1 ELSE n

ClampLimit(n) ==
    LET capped == IF n > MAX_LIMIT THEN MAX_LIMIT ELSE n
    IN IF capped < 1 THEN 1 ELSE capped

\* get_all_results: the call made to the store and the response returned
\* variant: the index is read forward (oldest first)
get_all_results_oldestFirst(tbl, query_params, available, order) ==
    LET raw == Get(query_params, "limit", Numeral(DEFAULT_LIMIT)) IN
    IF ~raw.numeric
    THEN [call |-> NoCall, resp |-> error_response(500, "invalid literal for int()")]
    ELSE LET limit == ClampLimit(raw.value)
             byUser == "user_id" \in DOMAIN query_params /\ query_params.user_id # ""
             call == IF byUser
                     THEN [op |-> "query", IndexName |-> "UserIdIndex",
                           user_id |-> query_params.user_id, Limit |-> limit,
                           ScanIndexForward |-> FALSE]
                     ELSE [op |-> "scan", Limit |-> limit]
             response == IF byUser
                         THEN QueryUserIdIndex(tbl, query_params.user_id, limit, TRUE)
                         ELSE Scan(tbl, limit, order)
             items == response.Items
             entries == [i \in DOMAIN items |-> ListEntry(items[i])]
         IN [call |-> call,
             resp |-> IF ~available THEN error_response(500, "store error")
                      ELSE success_response(
                              [count |-> Len(entries), results |-> entries,
                               has_more |-> "LastEvaluatedKey" \in DOMAIN response])]

get_all_results(tbl, query_params, available, order) ==
    LET raw == Get(query_params, "limit", Numeral(DEFAULT_LIMIT)) IN
    IF ~raw.numeric
    THEN [call |-> NoCall, resp |-> error_response(500, "invalid literal for int()")]
    ELSE LET limit == ClampLimit(raw.value)
             byUser == "user_id" \in DOMAIN query_params /\ query_params.user_id # ""
             call == IF byUser
                     THEN [op |-> "query", IndexName |-> "UserIdIndex",
                           user_id |-> query_params.user_id, Limit |-> limit,
                           ScanIndexForward |-> FALSE]
                     ELSE [op |-> "scan", Limit |-> limit]
             response == IF byUser
                         THEN QueryUserIdIndex(tbl, query_params.user_id, limit, FALSE)
                         ELSE Scan(tbl, limit, order)
             items == response.Items
             entries == [i \in DOMAIN items |-> ListEntry(items[i])]
         IN [call |-> call,
             resp |-> IF ~available THEN error_response(500, "store error")
                      ELSE success_response(
                              [count |-> Len(entries), results |-> entries,
                               has_more |-> "LastEvaluatedKey" \in DOMAIN response])]

\* the query strings of GET /results
LimitValues == {Numeral(n) : n \in {-1, 0, 1, 2, 3, 100, 101, 150}} \cup {NotNumeral}
QueryParams ==
    {EmptyMap}
    \cup {[limit |-> l] : l \in LimitValues}
    \cup {[user_id |-> u] : u \in Writers \cup {""}}
    \cup {[limit |-> l, user_id |-> u] : l \in LimitValues, u \in Writers \cup {""}}

\* GET /results
GetAllResults ==
    /\ viewerPc = "idle"
    /\ \E query_params \in QueryParams, available \in BOOLEAN, order \in PartitionOrders :
         LET r == get_all_results(store, query_params, available, order) IN
         /\ viewerReq' = query_params
         /\ viewerQuery' = IF r.call = NoCall THEN "none"
                           ELSE IF available THEN "ok" ELSE "error"
         /\ viewerCall' = r.call
         /\ viewerResp' = r.resp
    /\ viewerPc' = "responded"
    /\ UNCHANGED <<now, store, wflog, saverVars, analyzerVars, fnVars>>

\* the results tables that the saver's writes can leave: each key (image_id,
\* processed_timestamp) holds no item or the item of one user
ListingStores ==
    {{prepare_dynamodb_item([image_id |-> k[1], user_id |-> f[k]], k[2]) :
         k \in {x \in DOMAIN f : f[x] # "-"}} :
       f \in [ImageIds \X (0..MaxTime) -> Writers \cup {"-"}]}

\* ==================================================== rekognition_analyzer
MAX_LABELS == 50
MAX_FACES == 10

LabelNames == {"Food", "Cat"}
LabelConfs == {70, 90}
FaceConfs == {60, 80, 85}
ModConfs == {69, 70}
TextDetections == {[Type |-> "LINE", DetectedText |-> "hello"],
                   [Type |-> "LINE", DetectedText |-> ""],
                   [Type |-> "WORD", DetectedText |-> "hello"]}

\* what the vision service can answer to each probe: a response or an error
Failure == [ok |-> FALSE, error |-> "ServiceError"]
Response(field, Findings, n) ==
    {[ok |-> TRUE, resp |-> [f \in {field} |-> s]] : s \in SeqsUpTo(Findings, n)}
\* a response of n findings, all of them x
LongResponse(field, x, n) ==
    [ok |-> TRUE, resp |-> [f \in {field} |-> [i \in 1..n |-> x]]]

\* rekognition_client.detect_labels(MaxLabels=MaxLabels): the service returns
\* no more than MaxLabels labels
DetectLabelsAnswers(MaxLabels) ==
    {o \in Response("Labels", [Name : LabelNames, Confidence : LabelConfs], MaxLabelsLen)
            \cup {LongResponse("Labels", [Name |-> "Cat", Confidence |-> 70], n) :
                      n \in (MAX_LABELS - 1)..(MAX_LABELS + 1)} :
        Len(o.resp.Labels) <= MaxLabels}
LabelOutcomes == DetectLabelsAnswers(MAX_LABELS) \cup {Failure}

\* rekognition_client.detect_faces takes no maximum: the service returns
\* every face it finds
FaceOutcomes ==
    Response("FaceDetails", [Confidence : FaceConfs], MaxFacesLen)
        \cup {LongResponse("FaceDetails", [Confidence |-> 80], n) :
                  n \in MAX_FACES..(MAX_FACES + MaxFacesLen - 1)}
        \cup {Failure}
TextOutcomes ==
    Response("TextDetections", TextDetections, MaxTextLen) \cup {Failure}
ModerationOutcomes ==
    Response("ModerationLabels", [Name : {"Violence"}, Confidence : ModConfs], MaxModLen)
        \cup {Failure}

detect_labels(outcome) ==
    IF outcome.ok
    THEN LET labels == [i \in DOMAIN outcome.resp.Labels |->
                          [Name |-> outcome.resp.Labels[i].Name,
                           Confidence |-> outcome.resp.Labels[i].Confidence]]
         IN [count |-> Len(labels), labels |-> labels]
    ELSE [count |-> 0, labels |-> <<>>, error |-> outcome.error]

\* of a face only the confidence is kept here; age_range, gender and emotions
\* are copied through by the code and read by nothing in the pipeline
\* variant: every face of the response is kept
detect_faces_noCap(outcome) ==
    IF outcome.ok
    THEN LET faces == outcome.resp.FaceDetails
             faces_simplified == [i \in DOMAIN faces |-> [confidence |-> faces[i].Confidence]]
         IN [count |-> Len(faces_simplified), has_faces |-> Len(faces_simplified) > 0,
             faces |-> faces_simplified]
    ELSE [count |-> 0, has_faces |-> FALSE, faces |-> <<>>, error |-> outcome.error]

detect_faces(outcome) ==
    IF outcome.ok
    THEN LET faces == outcome.resp.FaceDetails
             kept == SubSeq(faces, 1, Min(MAX_FACES, Len(faces)))
             faces_simplified == [i \in DOMAIN kept |-> [confidence |-> kept[i].Confidence]]
         IN [count |-> Len(faces_simplified), has_faces |-> Len(faces_simplified) > 0,
             faces |-> faces_simplified]
    ELSE [count |-> 0, has_faces |-> FALSE, faces |-> <<>>, error |-> outcome.error]

detect_text(outcome) ==
    IF outcome.ok
    THEN LET IsLine(t) == t.Type = "LINE"
             NonEmpty(t) == t # ""
             lines == SelectSeq(outcome.resp.TextDetections, IsLine)
             texts == SelectSeq([i \in DOMAIN lines |-> lines[i].DetectedText], NonEmpty)
         IN [count |-> Len(texts), has_text |-> Len(texts) > 0, text |-> texts]
    ELSE [count |-> 0, has_text |-> FALSE, text |-> <<>>, error |-> outcome.error]

\* variant: the threshold is exclusive
detect_moderation_labels_strict(outcome) ==
    IF outcome.ok
    THEN LET labels == outcome.resp.ModerationLabels
         IN [count |-> Len(labels),
             is_safe |-> ~(\E i \in DOMAIN labels : labels[i].Confidence > UnsafeThreshold),
             labels |-> labels]
    ELSE [count |-> 0, is_safe |-> TRUE, labels |-> <<>>, error |-> outcome.error]

\* variant: a failed moderation call marks the image unsafe
detect_moderation_labels_failClosed(outcome) ==
    IF outcome.ok
    THEN LET labels == outcome.resp.ModerationLabels
         IN [count |-> Len(labels),
             is_safe |-> ~(\E i \in DOMAIN labels : labels[i].Confidence >= UnsafeThreshold),
             labels |-> labels]
    ELSE [count |-> 0, is_safe |-> FALSE, labels |-> <<>>, error |-> outcome.error]

detect_moderation_labels(outcome) ==
    IF outcome.ok
    THEN LET labels == outcome.resp.ModerationLabels
         IN [count |-> Len(labels),
             is_safe |-> ~(\E i \in DOMAIN labels : labels[i].Confidence >= UnsafeThreshold),
             labels |-> labels]
    ELSE [count |-> 0, is_safe |-> TRUE, labels |-> <<>>, error |-> outcome.error]

\* a rational number is <<numerator, denominator>>, denominator > 0
RAdd(a, b) == <<a[1] * b[2] + b[1] * a[2], a[2] * b[2]>>

RECURSIVE RSum(_)
RSum(s) == IF s = <<>> THEN <<0, 1>> ELSE RAdd(Head(s), RSum(Tail(s)))

\* round(x, 2) of x = q[1]/q[2], in hundredths; a tie goes to the even neighbour
Round2(q) ==
    LET n == 100 * q[1]
        lo == n \div q[2]
        r == n % q[2]
    IN IF 2 * r < q[2] THEN lo
       ELSE IF 2 * r > q[2] THEN lo + 1
       ELSE IF lo % 2 = 0 THEN lo ELSE lo + 1

SeqMax(s, default) == IF s = <<>> THEN default ELSE Max({s[i] : i \in DOMAIN s})

LabelSignal(res) ==
    LET labels == Get(res, "labels", EmptyMap) IN
    IF Get(labels, "count", 0) > 0
    THEN LET ls == Get(labels, "labels", <<>>)
         IN <<<<SeqMax([i \in DOMAIN ls |-> ls[i].Confidence], 0), 1>>>>
    ELSE <<>>

FaceSignal(res) ==
    LET faces == Get(res, "faces", EmptyMap) IN
    IF Get(faces, "count", 0) > 0
    THEN LET fs == Get(faces, "faces", <<>>)
         IN <<<<SumSeq([i \in DOMAIN fs |-> fs[i].confidence]),
                 IF Get(faces, "count", 1) > 1 THEN Get(faces, "count", 1) ELSE 1>>>>
    ELSE <<>>

TextSignalOf(res) ==
    LET text == Get(res, "text", EmptyMap) IN
    IF Get(text, "count", 0) > 0 THEN <<<<TextSignal, 1>>>> ELSE <<>>

\* variant: moderation findings add a signal
calculate_overall_confidence_withModeration(res) ==
    LET m == Get(res, "moderation", EmptyMap)
        confidences == LabelSignal(res) \o FaceSignal(res) \o TextSignalOf(res)
                       \o (IF Get(m, "count", 0) > 0 THEN <<<<TextSignal, 1>>>> ELSE <<>>)
    IN IF confidences # <<>>
       THEN LET total == RSum(confidences)
            IN Round2(<<total[1], total[2] * Len(confidences)>>)
       ELSE 0

calculate_overall_confidence(res) ==
    LET confidences == LabelSignal(res) \o FaceSignal(res) \o TextSignalOf(res)
    IN IF confidences # <<>>
       THEN LET total == RSum(confidences)
            IN Round2(<<total[1], total[2] * Len(confidences)>>)
       ELSE 0

NoDetections == <<"Image analyzed with no significant detections">>

\* the summary is the sequence of its clauses, in the order they are joined by ". "
\* variant: the text clause is emitted before the faces clause
generate_summary_textFirst(res) ==
    LET labelPart == IF Get(Get(res, "labels", EmptyMap), "count", 0) > 0
                     THEN LET top == res.labels.labels[1]
                          IN <<<<"Top label", top.Name, top.Confidence>>>>
                     ELSE <<>>
        facePart == IF Get(Get(res, "faces", EmptyMap), "has_faces", FALSE)
                    THEN <<<<"Faces detected", res.faces.count>>>> ELSE <<>>
        textPart == IF Get(Get(res, "text", EmptyMap), "has_text", FALSE)
                    THEN <<<<"Text detected in image">>>> ELSE <<>>
        modPart == IF ~Get(Get(res, "moderation", EmptyMap), "is_safe", TRUE)
                   THEN <<<<"Content flagged by moderation">>>> ELSE <<>>
        summary_parts == labelPart \o textPart \o facePart \o modPart
    IN IF summary_parts # <<>> THEN summary_parts ELSE <<NoDetections>>

generate_summary(res) ==
    LET labelPart == IF Get(Get(res, "labels", EmptyMap), "count", 0) > 0
                     THEN LET top == res.labels.labels[1]
                          IN <<<<"Top label", top.Name, top.Confidence>>>>
                     ELSE <<>>
        facePart == IF Get(Get(res, "faces", EmptyMap), "has_faces", FALSE)
                    THEN <<<<"Faces detected", res.faces.count>>>> ELSE <<>>
        textPart == IF Get(Get(res, "text", EmptyMap), "has_text", FALSE)
                    THEN <<<<"Text detected in image">>>> ELSE <<>>
        modPart == IF ~Get(Get(res, "moderation", EmptyMap), "is_safe", TRUE)
                   THEN <<<<"Content flagged by moderation">>>> ELSE <<>>
        summary_parts == labelPart \o facePart \o textPart \o modPart
    IN IF summary_parts # <<>> THEN summary_parts ELSE <<NoDetections>>

InitResults ==
    [image_id |-> "img1", confidence |-> 0, labels |-> EmptyMap, faces |-> EmptyMap,
     text |-> EmptyMap, moderation |-> EmptyMap, summary |-> <<>>]

NotCalled == [ok |-> FALSE, error |-> "not called"]

\* the except clause of each probe returns the degraded partial: nothing is raised
\* variant: a failed probe call is raised to the handler
ProbeRaises_propagate(outcome) == ~outcome.ok

ProbeRaises(outcome) == FALSE

\* Python's None, and the values that are false in a condition
None == "<None>"
Truthy(x) == x \notin {None, ""}

\* a or b
Or(a, b) == IF Truthy(a) THEN a ELSE b

\* the events given to the analyzer: each of bucket, s3_bucket, key and
\* s3_key is optional
AnalyzerEvents ==
    {b @@ sb @@ k @@ sk :
        b \in {EmptyMap} \cup {[bucket |-> x] : x \in {"", "bkt"}},
        sb \in {EmptyMap} \cup {[s3_bucket |-> x] : x \in {"", "bkt"}},
        k \in {EmptyMap} \cup {[key |-> x] : x \in {"", "k.jpg"}},
        sk \in {EmptyMap} \cup {[s3_key |-> x] : x \in {"", "k.jpg"}}}

\* 'if not bucket or not key'
\* variant: only the bucket is validated
Invalid_bucketOnly(bucket, key) == ~Truthy(bucket)

Invalid(bucket, key) == ~Truthy(bucket) \/ ~Truthy(key)

NoReq == [bucket |-> None, key |-> None]

\* lambda_handler lines 25-41: validation of the event, then the empty results
AnalyzerStart ==
    /\ aPc = "idle"
    /\ \E event \in AnalyzerEvents :
         LET bucket == Or(Get(event, "bucket", None), Get(event, "s3_bucket", None))
             key == Or(Get(event, "key", None), Get(event, "s3_key", None))
         IN /\ aReq' = [bucket |-> bucket, key |-> key]
            /\ aPc' = IF Invalid(bucket, key) THEN "raised" ELSE "labels"
    /\ results' = InitResults
    /\ UNCHANGED <<now, store, wflog, saverVars, viewerVars, svc, fnVars>>

\* the probes in the order lambda_handler calls them
Probes == <<"labels", "faces", "text", "moderation">>

\* the partial a probe yields for a service answer when no probe fails
PartialOf(p, outcome) ==
    CASE p = "labels" -> detect_labels(outcome)
      [] p = "faces" -> detect_faces(outcome)
      [] p = "text" -> detect_text(outcome)
      [] p = "moderation" -> detect_moderation_labels(outcome)

\* what the vision service may answer to a probe
OutcomesOf(p) ==
    CASE p = "labels" -> LabelOutcomes
      [] p = "faces" -> FaceOutcomes
      [] p = "text" -> TextOutcomes
      [] p = "moderation" -> ModerationOutcomes

\* lambda_handler lines 33-54 for given service answers: the results dict
\* with the four partials, then the confidence and the summary
SequentialResult(outcomes) ==
    LET partials == [InitResults EXCEPT
                        !.labels = detect_labels(outcomes.labels),
                        !.faces = detect_faces(outcomes.faces),
                        !.text = detect_text(outcomes.text),
                        !.moderation = detect_moderation_labels(outcomes.moderation)]
    IN [partials EXCEPT !.confidence = calculate_overall_confidence(partials),
                        !.summary = generate_summary(partials)]

\* one probe call of lambda_handler: the partial is stored under its field
\* variant: a failed probe resets the partials gathered so far
ProbeStep_failureResets(next, field, outcome, partial) ==
    /\ svc' = [svc EXCEPT ![field] = outcome]
    /\ aPc' = next
    /\ results' = IF outcome.ok THEN [results EXCEPT ![field] = partial]
                  ELSE [InitResults EXCEPT ![field] = partial]
    /\ UNCHANGED <<now, store, wflog, saverVars, viewerVars, aReq, fnVars>>

ProbeStep(next, field, outcome, partial) ==
    /\ svc' = [svc EXCEPT ![field] = outcome]
    /\ IF ProbeRaises(outcome)
       THEN aPc' = "raised" /\ results' = results
       ELSE aPc' = next /\ results' = [results EXCEPT ![field] = partial]
    /\ UNCHANGED <<now, store, wflog, saverVars, viewerVars, aReq, fnVars>>

DetectLabels ==
    /\ aPc = "labels"
    /\ \E outcome \in LabelOutcomes :
          ProbeStep("faces", "labels", outcome, detect_labels(outcome))

DetectFaces ==
    /\ aPc = "faces"
    /\ \E outcome \in FaceOutcomes :
          ProbeStep("text", "faces", outcome, detect_faces(outcome))

DetectText ==
    /\ aPc = "text"
    /\ \E outcome \in TextOutcomes :
          ProbeStep("moderation", "text", outcome, detect_text(outcome))

DetectModeration ==
    /\ aPc = "moderation"
    /\ \E outcome \in ModerationOutcomes :
          ProbeStep("score", "moderation", outcome, detect_moderation_labels(outcome))

\* lambda_handler lines 49-54
AnalyzerFinish ==
    /\ aPc = "score"
    /\ results' = [results EXCEPT !.confidence = calculate_overall_confidence(results),
                                  !.summary = generate_summary(results)]
    /\ aPc' = "done"
    /\ UNCHANGED <<now, store, wflog, saverVars, viewerVars, aReq, svc, fnVars>>

\* ------------------------------- the analyzer's result given to result_saver
\* a string as the sequence of its characters; a string that no substring
\* test reads is held whole
Chars(s) == IF s = "Food" THEN Str_Food ELSE IF s = "Cat" THEN Str_Cat ELSE <<s>>

\* the 'error' entry of a degraded partial
ErrorJson(p) ==
    IF "error" \in DOMAIN p THEN [error |-> StrV(Chars(p.error))] ELSE EmptyMap

\* the dict returned by detect_labels: the keys count and labels, and error
\* after a failure
LabelsJson(p) ==
    DictV([count |-> IntV(p.count),
           labels |-> ListV([i \in DOMAIN p.labels |->
                               DictV([Name |-> StrV(Chars(p.labels[i].Name)),
                                      Confidence |-> FloatV(100 * p.labels[i].Confidence)])])]
          @@ ErrorJson(p))

FacesJson(p) ==
    DictV([count |-> IntV(p.count), has_faces |-> BoolV(p.has_faces),
           faces |-> ListV([i \in DOMAIN p.faces |->
                              DictV([confidence |-> FloatV(100 * p.faces[i].confidence)])])]
          @@ ErrorJson(p))

TextJson(p) ==
    DictV([count |-> IntV(p.count), has_text |-> BoolV(p.has_text),
           text |-> ListV([i \in DOMAIN p.text |-> StrV(Chars(p.text[i]))])]
          @@ ErrorJson(p))

ModerationJson(p) ==
    DictV([count |-> IntV(p.count), is_safe |-> BoolV(p.is_safe),
           labels |-> ListV([i \in DOMAIN p.labels |->
                               DictV([Name |-> StrV(Chars(p.labels[i].Name)),
                                      Confidence |-> FloatV(100 * p.labels[i].Confidence)])])]
          @@ ErrorJson(p))

\* the dict returned by the analyzer's lambda_handler, as typed values; the
\* summary stays the sequence of its clauses
AnalysisJson(res) ==
    DictV([image_id |-> StrV(Chars(res.image_id)),
           confidence |-> FloatV(res.confidence),
           labels |-> LabelsJson(res.labels),
           faces |-> FacesJson(res.faces),
           text |-> TextJson(res.text),
           moderation |-> ModerationJson(res.moderation),
           summary |-> StrV(res.summary)])

\* result_saver's lambda_handler on the event whose analysis is the
\* analyzer's result: the item is prepared and written, and its statistics
\* are computed
EndToEndSave ==
    /\ aPc = "done"
    /\ \E event \in {[image_id |-> results.image_id, user_id |-> "u1",
                       analysis |-> AnalysisJson(results)]} :
       \E prepared \in {prepare_dynamodb_item(event, now)} :
          /\ encItem' = prepared
          /\ IF SerializerRejects(prepared)
             THEN encPut' = "TypeError" /\ store' = store /\ stats' = stats
             ELSE /\ encPut' = "Ok"
                  /\ store' = PutItem(store, prepared)
                  /\ stats' = calculate_statistics(prepared)
    /\ aPc' = "saved"
    /\ UNCHANGED <<now, wflog, saverVars, viewerVars, aReq, svc, results,
                   statItem, encEvent>>

\* the probes called in any order: the validation of the event
AnalyzerStartAnyOrder ==
    /\ aPc = "idle"
    /\ \E event \in AnalyzerEvents :
         LET bucket == Or(Get(event, "bucket", None), Get(event, "s3_bucket", None))
             key == Or(Get(event, "key", None), Get(event, "s3_key", None))
         IN /\ aReq' = [bucket |-> bucket, key |-> key]
            /\ aPc' = IF Invalid(bucket, key) THEN "raised" ELSE "probing"
    /\ results' = InitResults
    /\ UNCHANGED <<now, store, wflog, saverVars, viewerVars, svc, fnVars>>

\* the probes called in any order: probe p is called once, whichever
\* probes were called before it; the scoring follows the last one
DetectAnyOrder(p) ==
    /\ aPc = "probing"
    /\ svc[p] = NotCalled
    /\ \E outcome \in OutcomesOf(p) :
          ProbeStep(IF \A i \in DOMAIN Probes : Probes[i] = p \/ svc[Probes[i]] # NotCalled
                    THEN "score" ELSE "probing",
                    p, outcome, PartialOf(p, outcome))

\* ========================================================= specifications
\* no request has been taken by any handler
InitPipeline ==
    /\ now = 0
    /\ store = {}
    /\ wflog = {}
    /\ pc = [w \in Writers |-> "idle"]
    /\ item = [w \in Writers |-> NoItem]
    /\ putOutcome = [w \in Writers |-> "none"]
    /\ ret = [w \in Writers |-> EmptyMap]
    /\ reqNo = [w \in Writers |-> 0]

InitViewer ==
    /\ viewerPc = "idle"
    /\ viewerReq = "none"
    /\ viewerQuery = "none"
    /\ viewerResp = NoResponse
    /\ viewerCall = NoCall

InitAnalyzer ==
    /\ aPc = "idle"
    /\ aReq = NoReq
    /\ svc = [p \in {"labels", "faces", "text", "moderation"} |-> NotCalled]
    /\ results = InitResults

InitStat == statItem = NoStatItem /\ stats = EmptyMap

InitEnc == encEvent = EmptyMap /\ encItem = NoItem /\ encPut = "none"

Init == InitPipeline /\ InitViewer /\ InitAnalyzer /\ InitStat /\ InitEnc

\* the persistence pipeline: concurrent result_saver invocations and the viewer
Next ==
    \/ Tick
    \/ \E w \in Writers : Prepare(w)
    \/ \E w \in Writers : SaveToResultsTable(w)
    \/ \E w \in Writers : LogWorkflowExecution(w)
    \/ GetResultById
    \/ ViewerReturn

Spec == Init /\ [][Next]_vars

\* one invocation of the analyzer
NextAnalyzer ==
    \/ AnalyzerStart
    \/ DetectLabels
    \/ DetectFaces
    \/ DetectText
    \/ DetectModeration
    \/ AnalyzerFinish

SpecAnalyzer == Init /\ [][NextAnalyzer]_vars

\* one invocation of the analyzer followed by result_saver on its result
NextEndToEnd ==
    \/ NextAnalyzer
    \/ EndToEndSave

SpecEndToEnd == Init /\ [][NextEndToEnd]_vars

\* one invocation of the analyzer with the four probes in any order
NextAnyOrder ==
    \/ AnalyzerStartAnyOrder
    \/ \E p \in {"labels", "faces", "text", "moderation"} : DetectAnyOrder(p)
    \/ AnalyzerFinish

SpecAnyOrder == Init /\ [][NextAnyOrder]_vars

\* the listing requests of result_viewer over a populated results table
InitListing ==
    /\ now = 0
    /\ store \in ListingStores
    /\ wflog = {}
    /\ pc = [w \in Writers |-> "idle"]
    /\ item = [w \in Writers |-> NoItem]
    /\ putOutcome = [w \in Writers |-> "none"]
    /\ ret = [w \in Writers |-> EmptyMap]
    /\ reqNo = [w \in Writers |-> 0]
    /\ InitViewer /\ InitAnalyzer /\ InitStat /\ InitEnc

NextListing ==
    \/ GetAllResults
    \/ ViewerReturn

SpecListing == InitListing /\ [][NextListing]_vars

\* prepare_dynamodb_item and the write applied to one event, and the stored
\* record read back by get_result_by_id
InitEncode ==
    /\ InitPipeline /\ InitViewer /\ InitAnalyzer /\ InitStat
    /\ encEvent \in EncEvents
    /\ encItem = NoItem
    /\ encPut = "none"

NextEncode ==
    \/ EncPrepare
    \/ EncPut
    \/ GetResultById
    \/ ViewerReturn

SpecEncode == InitEncode /\ [][NextEncode]_vars

\* calculate_statistics applied to one item
InitStatistics ==
    /\ InitPipeline /\ InitViewer /\ InitAnalyzer /\ InitEnc
    /\ statItem \in StatItems
    /\ stats = EmptyMap

NextStatistics == CalculateStatistics

SpecStatistics == InitStatistics /\ [][NextStatistics]_vars

\* ================================================================ claims
\* the step in which invocation w's put_item call returns
PutReturns(w) == pc[w] = "save" /\ pc'[w] # "save"

\* the step in which the viewer answers a request
ViewerAnswers == viewerPc = "idle" /\ viewerPc' = "responded"

\* C1: for any interleaving of concurrent result_saver writes for one image
\* id, no stored record is overwritten or replaced by a write carrying a
\* smaller processed_timestamp, and the processed_timestamp of the current
\* record (the greatest stored for the id) never decreases.
C1_CurrentNeverGoesBack ==
    [][/\ \A id \in ImageIds : CurrentTs(store', id) >= CurrentTs(store, id)
       /\ \A r \in store \ store' :
            \E n \in store' \ store :
               /\ n.image_id = r.image_id
               /\ n.processed_timestamp >= r.processed_timestamp]_vars

\* a write that carries a smaller timestamp than the current record has been
\* applied by one of two concurrent invocations
C1_Witness ==
    \E w \in Writers :
       /\ pc[w] \in {"log", "done"}
       /\ putOutcome[w] = "Ok"
       /\ item[w].processed_timestamp < CurrentTs(store, item[w].image_id)
       /\ \E v \in Writers \ {w} : pc[v] \in {"log", "done"} /\ putOutcome[v] = "Ok"

\* C2: after A (t1) and B (t2 > t1) were written for an image id,
\* get_result_by_id returns B; a later write for the id with t0 < t2 returns
\* without error and leaves the store unchanged, B still being the record
\* that get_result_by_id returns.
C2_StaleWriteIsNoOp ==
    [][/\ \A w \in Writers :
            (/\ PutReturns(w)
             /\ putOutcome'[w] # "Error"
             /\ item[w].processed_timestamp < CurrentTs(store, item[w].image_id))
            => (store' = store /\ pc'[w] = "log")
       /\ (ViewerAnswers /\ viewerQuery' = "ok" /\ RecordsOf(store, viewerReq') # {})
            => /\ viewerResp'.statusCode = 200
               /\ viewerResp'.body.processed_timestamp = CurrentTs(store, viewerReq')]_vars

\* C3: the store applies a write for an image id only if no record exists
\* yet for the id or every existing record of the id has a strictly smaller
\* processed_timestamp; in every other case the write is rejected and the
\* store is unchanged.
C3_AppliedOnlyIfNewest ==
    [][\A w \in Writers :
          PutReturns(w) =>
             LET newest == \A r \in RecordsOf(store, item[w].image_id) :
                              r.processed_timestamp < item[w].processed_timestamp
             IN /\ store' # store => newest
                /\ ~newest => (store' = store /\ putOutcome'[w] # "Ok")]_vars

\* C4: when the store rejects the conditional write (ConditionalCheckFailed),
\* save_to_results_table raises nothing, the stored records are unchanged,
\* and the handler completes and returns status SUCCESS.
C4_RejectIsBenign ==
    /\ [][\A w \in Writers :
             (PutReturns(w) /\ putOutcome'[w] = "ConditionalCheckFailed")
                => (store' = store /\ pc'[w] = "log")]_vars
    /\ [](\A w \in Writers :
             putOutcome[w] = "ConditionalCheckFailed"
                => /\ pc[w] \in {"log", "done"}
                   /\ pc[w] = "log" => ENABLED LogWorkflowExecution(w)
                   /\ pc[w] = "done" => Get(ret[w], "status", "none") = "SUCCESS")

\* a rejected write whose handler has returned SUCCESS; the stored record
\* with its key is another request's
C4_Witness ==
    \E w \in Writers :
       /\ putOutcome[w] = "ConditionalCheckFailed"
       /\ pc[w] = "done"
       /\ Get(ret[w], "status", "none") = "SUCCESS"
       /\ item[w] \notin store
       /\ Existing(store, item[w]) # {}

\* C5: a failure of the results-table write other than the conditional
\* reject propagates out of save_to_results_table and of the handler: the
\* handler never returns SUCCESS for that request and no workflow-log record
\* is written for it.
C5_WriteFailurePropagates ==
    /\ [][\A w \in Writers :
             (PutReturns(w) /\ putOutcome'[w] = "Error")
                => (pc'[w] = "raised" /\ store' = store /\ wflog' = wflog)]_vars
    /\ [](\A w \in Writers :
             putOutcome[w] = "Error"
                => /\ pc[w] = "raised"
                   /\ ret[w] = EmptyMap
                   /\ \A l \in wflog : l.execution_id # <<w, reqNo[w]>>)

\* a request whose write failed has been raised to the caller, after an
\* earlier request of the same invocation was logged
C5_Witness ==
    \E w \in Writers :
       /\ putOutcome[w] = "Error"
       /\ pc[w] = "raised"
       /\ reqNo[w] = 2
       /\ \E l \in wflog : l.execution_id = <<w, 1>>

\* C6: whenever one or more records are stored for an image id,
\* get_result_by_id (its store query answered) returns a 200 response built
\* from the record with the greatest processed_timestamp among all records
\* stored for the id.
C6_ReturnsGreatest ==
    [][(ViewerAnswers /\ viewerQuery' = "ok" /\ RecordsOf(store, viewerReq') # {})
          => /\ viewerResp'.statusCode = 200
             /\ \E r \in RecordsOf(store, viewerReq') :
                   /\ \A q \in RecordsOf(store, viewerReq') :
                         q.processed_timestamp <= r.processed_timestamp
                   /\ viewerResp'.body = ResultBody(r)]_vars

\* the viewer answered 200 for an id that has several records, the older of
\* which was written last
C6_Witness ==
    /\ viewerPc = "responded"
    /\ viewerResp.statusCode = 200
    /\ Cardinality(RecordsOf(store, viewerReq)) >= 2
    /\ viewerResp.body.processed_timestamp = CurrentTs(store, viewerReq)
    /\ \E w \in Writers :
          /\ pc[w] = "done" /\ putOutcome[w] = "Ok"
          /\ item[w].image_id = viewerReq
          /\ item[w].processed_timestamp < CurrentTs(store, viewerReq)

\* C7: get_result_by_id for an image id with zero stored records returns a
\* 404 error response, never a 200 with empty content, and a failed store
\* query gives a different response (500).
C7_NotFound ==
    [][ViewerAnswers =>
          /\ (viewerQuery' = "ok" /\ RecordsOf(store, viewerReq') = {})
                => /\ viewerResp'.statusCode = 404
                   /\ viewerResp'.body.status_code = 404
          /\ viewerQuery' = "error" => viewerResp'.statusCode = 500
          /\ viewerResp'.statusCode = 404
                => (viewerQuery' = "ok" /\ RecordsOf(store, viewerReq') = {})]_vars

\* the viewer answered 404 for an id without records while the other id has one
C7_Witness ==
    /\ viewerPc = "responded"
    /\ viewerQuery = "ok"
    /\ viewerResp.statusCode = 404
    /\ RecordsOf(store, viewerReq) = {}
    /\ store # {}

\* the position the handler is at once a probe has returned
AfterProbe ==
    [labels |-> {"faces", "text", "moderation", "score", "done"},
     faces |-> {"text", "moderation", "score", "done"},
     text |-> {"moderation", "score", "done"},
     moderation |-> {"score", "done"}]
FindingsField == [labels |-> "labels", faces |-> "faces", text |-> "text",
                  moderation |-> "labels"]

\* C8: for every subset of the four probes that fails, the handler still
\* returns a complete result (four partials, confidence, summary); a failed
\* probe's partial has count 0, no findings and an error annotation; every
\* other probe's partial is what it is when no probe fails; no probe failure
\* is raised out of the handler.
C8_ProbeFailuresAbsorbed ==
    /\ \A i \in DOMAIN Probes :
          LET p == Probes[i] IN
          aPc \in AfterProbe[p] =>
             IF svc[p].ok
             THEN /\ results[p] = PartialOf(p, svc[p])
                  /\ "error" \notin DOMAIN results[p]
             ELSE /\ results[p].count = 0
                  /\ results[p][FindingsField[p]] = <<>>
                  /\ "error" \in DOMAIN results[p]
    /\ aPc = "raised" => \A i \in DOMAIN Probes : svc[Probes[i]] = NotCalled
    /\ aPc = "done" =>
          /\ \A i \in DOMAIN Probes : "count" \in DOMAIN results[Probes[i]]
          /\ results.summary # <<>>
          /\ results.confidence \in 0..10000

\* the handler returned after the labels and moderation probes failed while
\* the faces and text probes found something
C8_Witness ==
    /\ aPc = "done"
    /\ ~svc.labels.ok /\ ~svc.moderation.ok
    /\ svc.faces.ok /\ results.faces.count = 2
    /\ svc.text.ok /\ results.text.count = 1
    /\ results.confidence > 0

\* the findings the scorer looks at
LabelFindings == Get(results.labels, "labels", <<>>)
FaceFindings == Get(results.faces, "faces", <<>>)
TextFindings == Get(results.text, "text", <<>>)

\* C9: calculate_overall_confidence is the arithmetic mean, rounded to two
\* decimals, of exactly these signals: the maximum label confidence if labels
\* has a finding, the mean of all face confidences if faces has a finding,
\* the constant 80 if text has a finding; moderation never counts; with no
\* signal the result is 0.0 (labels [90] alone gives 90; labels [90] with
\* faces [80, 60] gives 80).
C9_ConfidenceIsMeanOfSignals ==
    /\ aPc = "done" =>
          LET hasL == Len(LabelFindings) >= 1
              hasF == Len(FaceFindings) >= 1
              hasT == Len(TextFindings) >= 1
              n == IF hasF THEN Len(FaceFindings) ELSE 1
              k == (IF hasL THEN 1 ELSE 0) + (IF hasF THEN 1 ELSE 0)
                     + (IF hasT THEN 1 ELSE 0)
              \* n times the sum of the signals
              total == (IF hasL
                        THEN n * Max({LabelFindings[i].Confidence : i \in DOMAIN LabelFindings})
                        ELSE 0)
                       + (IF hasF
                          THEN SumSeq([i \in DOMAIN FaceFindings |-> FaceFindings[i].confidence])
                          ELSE 0)
                       + (IF hasT THEN 80 * n ELSE 0)
              c == results.confidence
              \* 100 * mean - c, times 2 * n * k
              diff == 200 * total - 2 * c * n * k
          IN IF k = 0 THEN c = 0
             ELSE diff <= n * k /\ -diff <= n * k
    /\ calculate_overall_confidence(
          [labels |-> [count |-> 1, labels |-> <<[Name |-> "Cat", Confidence |-> 90]>>],
           faces |-> [count |-> 0, faces |-> <<>>],
           text |-> [count |-> 0, text |-> <<>>]]) = 9000
    /\ calculate_overall_confidence(
          [labels |-> [count |-> 1, labels |-> <<[Name |-> "Cat", Confidence |-> 90]>>],
           faces |-> [count |-> 2, faces |-> <<[confidence |-> 80], [confidence |-> 60]>>],
           text |-> [count |-> 0, text |-> <<>>]]) = 8000

\* three signals whose mean is not a whole number of hundredths, with
\* moderation findings present: max(70, 90), (60 + 85) / 2 and 80 give 80.83
C9_Witness ==
    /\ aPc = "done"
    /\ results.labels.count = 2
    /\ results.faces.count = 2
    /\ results.text.count = 1
    /\ results.moderation.count = 2
    /\ results.confidence = 8083

\* C10: the moderation partial's is_safe is false if and only if at least
\* one moderation finding has confidence >= 70: one finding at 69 gives
\* true, one finding at 70 gives false, no finding gives true.
C10_IsSafeThreshold ==
    aPc \in AfterProbe["moderation"] =>
       LET found == IF svc.moderation.ok THEN svc.moderation.resp.ModerationLabels
                    ELSE <<>>
       IN /\ results.moderation.is_safe = FALSE
               <=> \E i \in DOMAIN found : found[i].Confidence >= 70
          /\ (Len(found) = 1 /\ found[1].Confidence = 69) => results.moderation.is_safe
          /\ (Len(found) = 1 /\ found[1].Confidence = 70) => ~results.moderation.is_safe
          /\ found = <<>> => results.moderation.is_safe

\* the moderation probe returned a single finding at exactly 70
C10_Witness ==
    /\ aPc \in AfterProbe["moderation"]
    /\ svc.moderation.ok
    /\ Len(results.moderation.labels) = 1
    /\ results.moderation.labels[1].Confidence = 70
    /\ ~results.moderation.is_safe

\* the leading words of each clause of a summary, in the order of the clauses
ClauseKinds(summary) == [i \in DOMAIN summary |-> summary[i][1]]

\* C11: the summary consists of the label, faces, text and moderation
\* clauses in this fixed order, each present exactly when its condition holds
\* (labels findings non-empty, faces findings non-empty, text findings
\* non-empty, is_safe false); when no condition holds the summary is exactly
\* "Image analyzed with no significant detections".
C11_SummaryClauses ==
    aPc = "done" =>
       LET expected ==
              (IF LabelFindings # <<>> THEN <<"Top label">> ELSE <<>>)
              \o (IF FaceFindings # <<>> THEN <<"Faces detected">> ELSE <<>>)
              \o (IF TextFindings # <<>> THEN <<"Text detected in image">> ELSE <<>>)
              \o (IF ~results.moderation.is_safe
                  THEN <<"Content flagged by moderation">> ELSE <<>>)
       IN IF expected = <<>>
          THEN results.summary = <<<<"Image analyzed with no significant detections">>>>
          ELSE ClauseKinds(results.summary) = expected

\* the handler returned a summary of the faces, text and moderation clauses
\* for an image without label findings
C11_Witness ==
    /\ aPc = "done"
    /\ LabelFindings = <<>>
    /\ ClauseKinds(results.summary)
          = <<"Faces detected", "Text detected in image", "Content flagged by moderation">>

\* C12: when the labels findings are non-empty, the "Top label" clause of
\* the summary names the label finding with the highest confidence among all
\* label findings, in whatever order the vision service returned them.
C12_TopLabelIsHighest ==
    (aPc = "done" /\ LabelFindings # <<>>) =>
       LET clause == results.summary[1]
           highest == Max({LabelFindings[i].Confidence : i \in DOMAIN LabelFindings})
       IN /\ clause[1] = "Top label"
          /\ clause[3] = highest
          /\ \E i \in DOMAIN LabelFindings :
                /\ LabelFindings[i].Name = clause[2]
                /\ LabelFindings[i].Confidence = highest

\* C13: determine_content_type is first-match-wins over faces, text,
\* labels: faces_count = 1 gives PORTRAIT and faces_count > 1 gives
\* GROUP_PHOTO whatever text_count and labels_count are; otherwise
\* text_count > 0 gives DOCUMENT; otherwise labels_count > 0 gives LANDSCAPE,
\* FOOD or GENERAL by the top label's name; otherwise UNKNOWN.
C13_ContentTypeFirstMatch ==
    stats # EmptyMap =>
       LET t == stats.content_type
           byName == [n \in TopLabels |->
                        IF n \in {Str_Nature, Str_Landscape} THEN "LANDSCAPE"
                        ELSE IF n \in {Str_Food, Str_Seafood} THEN "FOOD"
                        ELSE "GENERAL"]
       IN /\ statItem.faces_count = 1 => t = "PORTRAIT"
          /\ statItem.faces_count > 1 => t = "GROUP_PHOTO"
          /\ (statItem.faces_count = 0 /\ statItem.text_count > 0) => t = "DOCUMENT"
          /\ (statItem.faces_count = 0 /\ statItem.text_count = 0
                /\ statItem.labels_count > 0) => t = byName[statItem.top_label]
          /\ (statItem.faces_count = 0 /\ statItem.text_count = 0
                /\ statItem.labels_count = 0) => t = "UNKNOWN"

\* an item with two faces, text and a food label has been classified GROUP_PHOTO
C13_Witness ==
    /\ stats # EmptyMap
    /\ statItem.faces_count = 2 /\ statItem.text_count > 0
    /\ statItem.labels_count > 0 /\ statItem.top_label = Str_Food
    /\ stats.content_type = "GROUP_PHOTO"

\* C14: the effective limit get_all_results passes to the store is always
\* within [1, 100]: 20 when the limit parameter is absent, 100 when it is
\* above 100, 1 when it is 0 or negative, the given value when it is in
\* range; the number of returned results never exceeds the effective limit.
C14_LimitClamped ==
    (viewerPc = "responded" /\ viewerCall.op # "none") =>
       LET effective == viewerCall.Limit IN
       /\ effective \in 1..100
       /\ IF "limit" \in DOMAIN viewerReq
          THEN LET given == viewerReq.limit.value IN
               /\ given > 100 => effective = 100
               /\ given < 1 => effective = 1
               /\ given \in 1..100 => effective = given
          ELSE effective = 20
       /\ viewerResp.statusCode = 200 =>
             Len(viewerResp.body.results) <= effective

\* limit=150 was answered with Limit 100 passed to the store and all of the
\* stored records returned
C14_Witness ==
    /\ viewerPc = "responded"
    /\ "limit" \in DOMAIN viewerReq
    /\ viewerReq.limit = Numeral(150)
    /\ viewerCall.op = "scan" /\ viewerCall.Limit = 100
    /\ viewerResp.statusCode = 200
    /\ viewerResp.body.count = Cardinality(store)
    /\ Cardinality(store) >= 3

\* C15: when a user_id is given, get_all_results returns only records whose
\* user_id equals the given one, ordered by processed_timestamp descending,
\* and they are the most recent records of that user, up to the effective
\* limit.
C15_UserListingMostRecent ==
    (/\ viewerPc = "responded"
     /\ "user_id" \in DOMAIN viewerReq
     /\ viewerReq.user_id # ""
     /\ viewerResp.statusCode = 200) =>
       LET page == viewerResp.body.results
           mine == {r \in store : r.user_id = viewerReq.user_id}
           Returned(r) == \E i \in DOMAIN page :
                             /\ page[i].image_id = r.image_id
                             /\ page[i].processed_timestamp = r.processed_timestamp
       IN /\ \A i \in DOMAIN page :
                /\ page[i].user_id = viewerReq.user_id
                /\ \E r \in mine : /\ r.image_id = page[i].image_id
                                   /\ r.processed_timestamp = page[i].processed_timestamp
          /\ \A i, j \in DOMAIN page :
                i < j => /\ page[i].processed_timestamp >= page[j].processed_timestamp
                         /\ page[i] # page[j]
          /\ Len(page) = Min(Cardinality(mine), viewerCall.Limit)
          /\ \A r \in mine :
                ~Returned(r) =>
                   \A i \in DOMAIN page : r.processed_timestamp <= page[i].processed_timestamp

\* user u1's two most recent records out of three were returned for limit=2
\* while user u2 has a record newer than both
C15_Witness ==
    /\ viewerPc = "responded"
    /\ "user_id" \in DOMAIN viewerReq
    /\ viewerReq.user_id = "u1"
    /\ viewerResp.statusCode = 200
    /\ viewerCall.op = "query" /\ viewerCall.Limit = 2
    /\ Len(viewerResp.body.results) = 2
    /\ Cardinality({r \in store : r.user_id = "u1"}) >= 3
    /\ viewerResp.body.results[1].processed_timestamp
          > viewerResp.body.results[2].processed_timestamp
    /\ \E r \in store : /\ r.user_id = "u2"
                        /\ r.processed_timestamp
                             > viewerResp.body.results[1].processed_timestamp

\* C16: in a listing response has_more is true if and only if records
\* matching the request exist in the store that were not returned in the
\* page, and count equals the number of entries in results.
C16_HasMoreExact ==
    (viewerPc = "responded" /\ viewerResp.statusCode = 200) =>
       LET matching == IF viewerCall.op = "query"
                       THEN {r \in store : r.user_id = viewerCall.user_id}
                       ELSE store
       IN /\ viewerResp.body.has_more
               <=> Cardinality(matching) > Len(viewerResp.body.results)
          /\ viewerResp.body.count = Len(viewerResp.body.results)

\* C17: every floating-point value anywhere in the item built by
\* prepare_dynamodb_item, at any nesting depth and under every attribute
\* (analysis, confidence, warning and size included), is decimal-encoded
\* before the item is handed to the store: no raw float reaches put_item.
C17_NoRawFloatInItem ==
    encItem # NoItem =>
       /\ \A a \in {"size", "analysis", "confidence", "warning"} : ~HasFloat(encItem[a])
       /\ encPut # "TypeError"

\* C18: an analyzer request whose bucket or key is missing or empty is
\* rejected with an error raised to the caller, before any of the four
\* probes is invoked and without any partial result being returned.
C18_InvalidRequestRejected ==
    /\ (aPc # "idle" /\ (aReq.bucket \in {None, ""} \/ aReq.key \in {None, ""})) =>
          /\ aPc = "raised"
          /\ \A i \in DOMAIN Probes : svc[Probes[i]] = NotCalled
          /\ \A i \in DOMAIN Probes : results[Probes[i]] = EmptyMap
          /\ results.summary = <<>>
    /\ aPc \in {"labels", "faces", "text", "moderation", "score", "done"} =>
          /\ aReq.bucket \notin {None, ""}
          /\ aReq.key \notin {None, ""}

\* a request that names the bucket but whose key is empty under both of its
\* names was raised
C18_Witness ==
    /\ aPc = "raised"
    /\ aReq.bucket = "bkt"
    /\ aReq.key = ""

\* C19: for fixed service outcomes of the probes, the analyzer's result (the
\* four partials, the confidence and the summary) is the same for every
\* order in which the four probes are executed, the sequential order of the
\* code included; a failure of one probe never changes another probe's
\* partial.
C19_OrderIndependent ==
    /\ \A i \in DOMAIN Probes :
          LET p == Probes[i] IN
          results[p] = IF svc[p] = NotCalled THEN EmptyMap ELSE PartialOf(p, svc[p])
    /\ aPc = "done" => results = SequentialResult(svc)

\* the moderation and text probes have returned and the faces probe has
\* failed before the labels probe is called
C19_Witness ==
    /\ aPc = "probing"
    /\ svc.labels = NotCalled
    /\ svc.faces = Failure
    /\ svc.text.ok /\ results.text.count = 1
    /\ svc.moderation.ok /\ results.moderation.count = 2

\* C20: every item built by prepare_dynamodb_item has processed_timestamp
\* equal to the current time in whole seconds and expiration_time equal to
\* that time plus 30 days in seconds, so expiration_time is strictly greater
\* than processed_timestamp; the saver never deletes a record.
C20_ExpiryAfterThirtyDays ==
    /\ [][\A w \in Writers :
             (pc[w] # "save" /\ pc'[w] = "save") =>
                /\ item'[w].processed_timestamp = now
                /\ item'[w].expiration_time = now + 30 * 24 * 60 * 60]_vars
    /\ [](\A r \in store \cup {item[w] : w \in {v \in Writers : item[v] # NoItem}} :
             /\ r.expiration_time = r.processed_timestamp + 2592000
             /\ r.expiration_time > r.processed_timestamp)
    /\ [][\A r \in store :
             \E q \in store' : /\ q.image_id = r.image_id
                               /\ q.processed_timestamp = r.processed_timestamp]_vars

\* a record prepared at second 1 is stored with expiry 2592001 next to an
\* older record of the same image
C20_Witness ==
    \E r \in store :
       /\ r.processed_timestamp = 1
       /\ r.expiration_time = 2592001
       /\ \E q \in store : q.image_id = r.image_id /\ q.processed_timestamp = 0

\* C21: for every response of the vision service, the labels partial holds
\* at most MAX_LABELS (50) findings and the faces partial at most MAX_FACES
\* (10) findings, with count equal to the number of findings retained.
C21_FindingsCapped ==
    /\ aPc \in AfterProbe["labels"] =>
          /\ Len(results.labels.labels) <= 50
          /\ results.labels.count = Len(results.labels.labels)
    /\ aPc \in AfterProbe["faces"] =>
          /\ Len(results.faces.faces) <= 10
          /\ results.faces.count = Len(results.faces.faces)

\* the service found 11 faces and 50 labels; 10 faces and 50 labels are kept
C21_Witness ==
    /\ aPc = "done"
    /\ svc.faces.ok /\ Len(svc.faces.resp.FaceDetails) = 11
    /\ results.faces.count = 10
    /\ svc.labels.ok /\ results.labels.count = 50

\* the step in which invocation w's log_workflow_execution call ends, and
\* whether its log item was written
LogReturns(w) == pc[w] = "log" /\ pc'[w] # "log"
LogWritten(w) == \E l \in wflog' : l.execution_id = <<w, reqNo[w]>>

\* C22: no store failure during a result_saver request is silently
\* swallowed other than the conditional-write reject: a failure of the
\* results-table write and a failure of the workflow-log write in
\* log_workflow_execution are both surfaced to the caller, and the request
\* does not return SUCCESS.
C22_NoStoreFailureSwallowed ==
    [][\A w \in Writers :
          /\ (PutReturns(w) /\ putOutcome'[w] = "Error") =>
                (pc'[w] = "raised" /\ Get(ret'[w], "status", "none") # "SUCCESS")
          /\ (LogReturns(w) /\ ~LogWritten(w)) =>
                (pc'[w] = "raised" /\ Get(ret'[w], "status", "none") # "SUCCESS")]_vars

\* C22 (amended): a failure of the results-table write other than the
\* conditional-write reject is raised to the caller and the request does not
\* return SUCCESS; a failure of the workflow-log write is swallowed: the
\* request returns SUCCESS, the results table keeps what the save left, and
\* no workflow-log record exists for the request.
C22_OnlyLogFailureSwallowed ==
    [][\A w \in Writers :
          /\ (PutReturns(w) /\ putOutcome'[w] = "Error") =>
                (pc'[w] = "raised" /\ Get(ret'[w], "status", "none") # "SUCCESS")
          /\ (LogReturns(w) /\ ~LogWritten(w)) =>
                /\ pc'[w] = "done"
                /\ Get(ret'[w], "status", "none") = "SUCCESS"
                /\ store' = store
                /\ wflog' = wflog]_vars

\* a request whose record was saved has returned SUCCESS although its
\* workflow-log write failed
C22_Witness ==
    \E w \in Writers :
       /\ pc[w] = "done"
       /\ Get(ret[w], "status", "none") = "SUCCESS"
       /\ putOutcome[w] = "Ok"
       /\ item[w] \in store
       /\ \A l \in wflog : l.execution_id # <<w, reqNo[w]>>

\* C23: end to end, the top_label stored for an image with no faces, no text
\* and at least one label is the name of the analysis's top label, and the
\* image is classified FOOD when that name contains "food" and LANDSCAPE
\* when it contains "landscape" or "nature"
C23_TopLabelClassifies ==
    (/\ aPc = "saved"
     /\ encPut = "Ok"
     /\ results.faces.count = 0
     /\ results.text.count = 0
     /\ results.labels.count > 0)
    => LET name == Chars(results.labels.labels[1].Name) IN
       /\ encItem.top_label = name
       /\ Contains(Lower(name), Str_food) => stats.content_type = "FOOD"
       /\ (Contains(Lower(name), Str_landscape) \/ Contains(Lower(name), Str_nature))
             => stats.content_type = "LANDSCAPE"

\* C25: when the moderation call fails the result is fail-open: the
\* moderation partial is safe with count 0 and an error annotation, the
\* summary has no "Content flagged by moderation" clause, and the record
\* result_saver stores for this analysis has is_safe true
C25_ModerationFailOpen ==
    svc.moderation = Failure
    => /\ results.moderation.is_safe
       /\ results.moderation.count = 0
       /\ "error" \in DOMAIN results.moderation
       /\ \A i \in DOMAIN results.summary :
             results.summary[i][1] # "Content flagged by moderation"
       /\ aPc = "saved" => /\ encItem.is_safe
                           /\ \A r \in store : r.is_safe

\* the moderation call failed on an image with labels and faces, and the
\* record was stored
C25_Witness ==
    /\ aPc = "saved"
    /\ svc.moderation = Failure
    /\ encPut = "Ok"
    /\ encItem \in store
    /\ results.labels.count > 0
    /\ results.faces.count > 0

\* the value is or holds an int
RECURSIVE HasInt(_)
HasInt(obj) ==
    \/ obj.type = "int"
    \/ /\ obj.type \in {"dict", "list"}
       /\ \E k \in DOMAIN obj.v : HasInt(obj.v[k])

====
